---- MODULE Spec2Model ----
(***************************************************************************)
(* Model of backend/src/app/api/colors.py: k-means++ seeding, the Lloyd    *)
(* loop of kmeans, and the percentage / hex aggregation of                 *)
(* extract_colors_from_image.                                              *)
(*                                                                         *)
(* Numbers: every float64 value of the program is modelled as an exact     *)
(* rational [n, d] in lowest terms with d > 0.  Pixels are integer-valued  *)
(* colours (d = 1).  The random generator is modelled as a                 *)
(* nondeterministic choice over the indices it can return.                 *)
(***************************************************************************)
EXTENDS Integers, Sequences, FiniteSets

\* ------------------------------------------------------------------ bounds
MaxPixels == 3
MaxK == 3
MaxIter == 2

\* default of the max_iterations parameter of kmeans
DefaultMaxIterations == 100

\* colours the bounded images are drawn from
Palette == { <<0, 0, 0>>, <<1, 0, 0>>, <<10, 10, 10>> }

\* a five pixel image on which the Lloyd loop empties a cluster
EmptyClusterImage ==
  << <<1, 2, 0>>, <<2, 0, 0>>, <<16, 16, 0>>, <<16, 8, 0>>, <<0, 2, 0>> >>

\* 100 pixels at (255,0,0) followed by 50 pixels at (0,0,255)
TwoColorImage ==
  [i \in 1..150 |-> IF i <= 100 THEN <<255, 0, 0>> ELSE <<0, 0, 255>>]

\* ------------------------------------------------------- exact arithmetic
Abs(x) == IF x < 0 THEN -x ELSE x

RECURSIVE GCD(_, _)
GCD(a, b) ==
  IF b = 0 THEN a
  ELSE CHOOSE r \in { GCD(y, x % y) : x \in {a}, y \in {b} } : TRUE

\* Operators that use an argument more than once bind it to its value
\* first, through a singleton set, so that it is computed once.

\* the rational n/d (d > 0) in lowest terms
Rat(n, d) ==
  CHOOSE r \in { [n |-> x \div g, d |-> y \div g] :
                    x \in {n}, y \in {d}, g \in { GCD(Abs(n), d) } } : TRUE

RInt(i) == [n |-> i, d |-> 1]
RAdd(a, b) ==
  CHOOSE r \in { Rat(x.n * y.d + y.n * x.d, x.d * y.d) : x \in {a}, y \in {b} } : TRUE
RSub(a, b) ==
  CHOOSE r \in { Rat(x.n * y.d - y.n * x.d, x.d * y.d) : x \in {a}, y \in {b} } : TRUE
RMul(a, b) ==
  CHOOSE r \in { Rat(x.n * y.n, x.d * y.d) : x \in {a}, y \in {b} } : TRUE
RLess(a, b) == a.n * b.d < b.n * a.d
RLeq(a, b) == a.n * b.d <= b.n * a.d

\* an integer colour triple as a float64 row (astype(np.float64))
AsFloat(v) == [i \in 1..3 |-> RInt(v[i])]

RECURSIVE RSum(_, _, _)
\* f[lo] + ... + f[hi], summed by halves
RSum(f, lo, hi) ==
  IF lo > hi THEN RInt(0)
  ELSE IF lo = hi THEN f[lo]
  ELSE LET mid == (lo + hi) \div 2
       IN RAdd(RSum(f, lo, mid), RSum(f, mid + 1, hi))

\* np.sum((p - c) ** 2) for one row p and one center c
SqDist(p, c) ==
  LET sq == [i \in 1..3 |-> RMul(RSub(p[i], c[i]), RSub(p[i], c[i]))]
  IN RSum(sq, 1, 3)

VARIABLES
  pixels,          \* the (n, 3) float array, as a sequence of rows
  n_clusters,      \* k
  max_iterations,
  pc,              \* control position
  first_idx,       \* locals of kmeans_plusplus_init, -1 when unbound
  next_idx,
  centers,         \* sequence of rows; center of cluster id c is centers[c+1]
  new_centers,     \* <<>> when unbound
  labels,          \* sequence of cluster ids in 0..k-1, <<>> when unbound
  it,              \* number of loop iterations entered
  stopped,         \* "no", "break" (convergence) or "cap" (range exhausted)
  exc,             \* name of the raised exception, "" when none
  results          \* list of ExtractedColor, <<>> before aggregation

vars == << pixels, n_clusters, max_iterations, pc, first_idx, next_idx,
           centers, new_centers, labels, it, stopped, exc, results >>

n_samples == Len(pixels)

\* ------------------------------------------------ kmeans_plusplus_init
RMin(a, b) ==
  CHOOSE r \in { IF RLeq(x, y) THEN x ELSE y : x \in {a}, y \in {b} } : TRUE

RECURSIVE MinDistance(_, _)
\* the least squared distance from pixel j to the first c centers
MinDistance(j, c) ==
  IF c = 1 THEN SqDist(pixels[j], centers[1])
  ELSE RMin(MinDistance(j, c - 1), SqDist(pixels[j], centers[c]))

\* np.min([np.sum((pixels - c) ** 2, axis=1) for c in centers], axis=0)
NearestDistances == [j \in 1..n_samples |-> MinDistance(j, Len(centers))]

\* distances.sum()
DistanceSum == RSum(NearestDistances, 1, n_samples)

\* the indices rng.choice(n_samples, p = distances / distances.sum()) can
\* return: those of nonzero probability.  Only meaningful for a nonzero sum.
ChoiceSupport == { j \in 1..n_samples : NearestDistances[j].n > 0 }

\* first_idx = rng.integers(n_samples); centers.append(pixels[first_idx])
ChooseFirst ==
  /\ pc = "seed_first"
  /\ \E i \in 0..(n_samples - 1) :
       /\ first_idx' = i
       /\ centers' = << pixels[i + 1] >>
  /\ pc' = "seed_loop"
  /\ UNCHANGED << pixels, n_clusters, max_iterations, next_idx, new_centers,
                  labels, it, stopped, exc, results >>

\* one pass of "for _ in range(1, n_clusters)".  With a zero sum the
\* division yields NaN probabilities and rng.choice raises ValueError.
ChooseNext ==
  /\ pc = "seed_loop"
  /\ Len(centers) < n_clusters
  /\ IF DistanceSum.n = 0
       THEN /\ pc' = "raised"
            /\ exc' = "ValueError"
            /\ UNCHANGED << next_idx, centers >>
       ELSE /\ \E j \in ChoiceSupport :
                 /\ next_idx' = j - 1
                 /\ centers' = Append(centers, pixels[j])
            /\ pc' = "seed_loop"
            /\ exc' = exc
  /\ UNCHANGED << pixels, n_clusters, max_iterations, first_idx, new_centers,
                  labels, it, stopped, results >>

\* return np.array(centers): the locals of the seeder go out of scope
SeedReturn ==
  /\ pc = "seed_loop"
  /\ Len(centers) = n_clusters
  /\ first_idx' = -1
  /\ next_idx' = -1
  /\ pc' = "for"
  /\ UNCHANGED << pixels, n_clusters, max_iterations, centers, new_centers,
                  labels, it, stopped, exc, results >>

\* --------------------------------------------------------------- kmeans
\* ArgMin returning the 1-based position instead of the 0-based id
ArgMinOneBased(d) ==
  CHOOSE c \in 1..Len(d) :
    /\ \A c2 \in 1..Len(d) : RLeq(d[c], d[c2])
    /\ \A c2 \in 1..(c - 1) : RLess(d[c], d[c2])

\* ArgMin resolving ties toward the last minimum
ArgMinLast(d) ==
  (CHOOSE c \in 1..Len(d) :
      /\ \A c2 \in 1..Len(d) : RLeq(d[c], d[c2])
      /\ \A c2 \in (c + 1)..Len(d) : RLess(d[c], d[c2])) - 1

\* np.argmin of a sequence of distances: the first index of the minimum,
\* as a 0-based cluster id
ArgMin(d) ==
  CHOOSE r \in
    { (CHOOSE c \in 1..Len(x) :
         /\ \A c2 \in 1..Len(x) : RLeq(x[c], x[c2])
         /\ \A c2 \in 1..(c - 1) : RLess(x[c], x[c2])) - 1 : x \in {d} } : TRUE

RECURSIVE ColumnUpTo(_, _)
ColumnUpTo(j, c) ==
  IF c = 0 THEN << >>
  ELSE Append(ColumnUpTo(j, c - 1), SqDist(pixels[j], centers[c]))

\* column j of the (k, n) distance array
DistanceColumn(j) == ColumnUpTo(j, Len(centers))

\* pixels[labels == k].mean(axis=0)
Mean(members) ==
  CHOOSE r \in
    { [i \in 1..3 |->
         RMul(RSum([j \in 1..n_samples |->
                      IF j \in m THEN pixels[j][i] ELSE RInt(0)],
                   1, n_samples),
              Rat(1, Cardinality(m)))] : m \in {members} } : TRUE

\* NewCenter resetting the center of a cluster without pixels to zero
NewCenterResetEmpty(k) ==
  LET members == { j \in 1..n_samples : labels[j] = k }
  IN IF members # {} THEN Mean(members) ELSE AsFloat(<< 0, 0, 0 >>)

\* NewCenter taking the first pixel of the cluster instead of the mean
NewCenterFirstMember(k) ==
  LET members == { j \in 1..n_samples : labels[j] = k }
  IN IF members # {}
       THEN pixels[CHOOSE j \in members : \A j2 \in members : j <= j2]
       ELSE centers[k + 1]

\* pixels[labels == k].mean(axis=0) if np.any(labels == k) else centers[k]
NewCenter(k) ==
  LET members == { j \in 1..n_samples : labels[j] = k }
  IN IF members # {} THEN Mean(members) ELSE centers[k + 1]

\* numpy's defaults atol = 1e-8 and rtol = 1e-5, as 1/AtolInv and 1/RtolInv
AtolInv == 100000000
RtolInv == 100000

\* |x - y| <= atol + rtol * |y|, multiplied through by AtolInv * x.d * y.d
IsClose(x, y) ==
  Abs(x.n * y.d - y.n * x.d)
    <= (x.d * y.d + (AtolInv \div RtolInv) * Abs(y.n) * x.d) \div AtolInv

\* np.allclose(a, b)
AllClose(a, b) ==
  \A c \in 1..Len(a) : \A i \in 1..3 : IsClose(a[c][i], b[c][i])

\* ForNext without the iteration cap
ForNextNoCap ==
  /\ pc = "for"
  /\ it' = it + 1
  /\ pc' = "assign"
  /\ UNCHANGED << pixels, n_clusters, max_iterations, first_idx, next_idx,
                  centers, new_centers, labels, stopped, exc, results >>

\* head of "for _ in range(max_iterations)"
ForNext ==
  /\ pc = "for"
  /\ IF it < max_iterations
       THEN /\ it' = it + 1
            /\ pc' = "assign"
            /\ stopped' = stopped
       ELSE /\ it' = it
            /\ pc' = "return"
            /\ stopped' = "cap"
  /\ UNCHANGED << pixels, n_clusters, max_iterations, first_idx, next_idx,
                  centers, new_centers, labels, exc, results >>

\* labels = np.argmin(distances, axis=0)
Assign ==
  /\ pc = "assign"
  /\ labels' = [j \in 1..n_samples |-> ArgMin(DistanceColumn(j))]
  /\ pc' = "update"
  /\ UNCHANGED << pixels, n_clusters, max_iterations, first_idx, next_idx,
                  centers, new_centers, it, stopped, exc, results >>

\* new_centers = np.array([... for k in range(n_clusters)])
Update ==
  /\ pc = "update"
  /\ new_centers' = [c \in 1..n_clusters |-> NewCenter(c - 1)]
  /\ pc' = "check"
  /\ UNCHANGED << pixels, n_clusters, max_iterations, first_idx, next_idx,
                  centers, labels, it, stopped, exc, results >>

\* CheckConvergence that never stores the new centers
CheckConvergenceNoCommit ==
  /\ pc = "check"
  /\ IF AllClose(centers, new_centers)
       THEN /\ pc' = "return"
            /\ stopped' = "break"
       ELSE /\ pc' = "for"
            /\ stopped' = stopped
  /\ UNCHANGED << pixels, n_clusters, max_iterations, first_idx, next_idx,
                  centers, new_centers, labels, it, exc, results >>

\* if np.allclose(centers, new_centers): break / centers = new_centers
CheckConvergence ==
  /\ pc = "check"
  /\ IF AllClose(centers, new_centers)
       THEN /\ pc' = "return"
            /\ stopped' = "break"
            /\ centers' = centers
       ELSE /\ centers' = new_centers
            /\ pc' = "for"
            /\ stopped' = stopped
  /\ UNCHANGED << pixels, n_clusters, max_iterations, first_idx, next_idx,
                  new_centers, labels, it, exc, results >>

\* return centers, labels: labels is unbound when the loop body never ran
Return ==
  /\ pc = "return"
  /\ IF labels = << >>
       THEN /\ pc' = "raised"
            /\ exc' = "UnboundLocalError"
       ELSE /\ pc' = "aggregate"
            /\ exc' = exc
  /\ UNCHANGED << pixels, n_clusters, max_iterations, first_idx, next_idx,
                  centers, new_centers, labels, it, stopped, results >>

\* ------------------------------------------- extract_colors_from_image
\* np.unique(labels): the distinct labels in ascending order
Unique ==
  LET S == { labels[j] : j \in 1..Len(labels) }
  IN [i \in 1..Cardinality(S) |->
        CHOOSE v \in S : Cardinality({ w \in S : w < v }) = i - 1]

\* the counts returned beside them (return_counts=True)
Counts ==
  [i \in 1..Len(Unique) |->
     Cardinality({ j \in 1..Len(labels) : labels[j] = Unique[i] })]

\* total_pixels = len(labels)
total_pixels == Len(labels)

\* float -> int of astype(int): truncation toward zero
AsInt(x) == IF x.n >= 0 THEN x.n \div x.d ELSE -((-x.n) \div x.d)

\* max(0, min(255, v))
Clamp(v) ==
  LET lo == IF v < 255 THEN v ELSE 255 IN IF lo > 0 THEN lo ELSE 0

HexDigits ==
  << "0", "1", "2", "3", "4", "5", "6", "7",
     "8", "9", "a", "b", "c", "d", "e", "f" >>

\* f'{v:02x}' for v in 0..255
Hex2(v) == << HexDigits[(v \div 16) + 1], HexDigits[(v % 16) + 1] >>

\* f'#{r:02x}{g:02x}{b:02x}', as the sequence of its characters
HexColor(center) ==
  << "#" >> \o Hex2(Clamp(AsInt(center[1])))
            \o Hex2(Clamp(AsInt(center[2])))
            \o Hex2(Clamp(AsInt(center[3])))

\* Percentage without the factor 100
PercentageFraction(cluster_id) ==
  IF \E i \in 1..Len(Unique) : Unique[i] = cluster_id
    THEN LET idx == CHOOSE i \in 1..Len(Unique) : Unique[i] = cluster_id
         IN Rat(Counts[idx], total_pixels)
    ELSE RInt(0)

\* the percentage of cluster_id: (counts[idx] / total_pixels) * 100 when
\* cluster_id in unique, else 0.0
Percentage(cluster_id) ==
  CHOOSE r \in
    { IF \E i \in 1..Len(u) : u[i] = cluster_id
        THEN LET idx == CHOOSE i \in 1..Len(u) : u[i] = cluster_id
             IN RMul(Rat(Counts[idx], total_pixels), RInt(100))
        ELSE RInt(0) : u \in {Unique} } : TRUE

\* the list built by "for cluster_id in range(num_colors)"
Unsorted ==
  [c \in 1..n_clusters |->
     [hex |-> HexColor(centers[c]), percentage |-> Percentage(c - 1)]]

RECURSIVE InsertDesc(_, _)
\* e placed in the descending list s after every entry that is not smaller
InsertDesc(e, s) ==
  CHOOSE r \in
    { IF y = << >> THEN << x >>
      ELSE IF RLess(Head(y).percentage, x.percentage)
             THEN << x >> \o y
             ELSE << Head(y) >> \o InsertDesc(x, Tail(y)) :
      x \in {e}, y \in {s} } : TRUE

RECURSIVE SortFrom(_, _, _)
SortFrom(s, i, acc) ==
  CHOOSE r \in
    { IF i > Len(x) THEN y ELSE SortFrom(x, i + 1, InsertDesc(x[i], y)) :
      x \in {s}, y \in {acc} } : TRUE

\* SortDescending leaving the list in cluster id order
SortNone(s) == s

\* results.sort(key=lambda x: x.percentage, reverse=True): a stable sort,
\* entries of equal percentage keep their order
SortDescending(s) == SortFrom(s, 1, << >>)

\* lines 100-126: percentages, hex codes, sort, return
Aggregate ==
  /\ pc = "aggregate"
  /\ results' = SortDescending(Unsorted)
  /\ pc' = "done"
  /\ UNCHANGED << pixels, n_clusters, max_iterations, first_idx, next_idx,
                  centers, new_centers, labels, it, stopped, exc >>

\* ------------------------------------------------------- specifications
Min(a, b) == IF a < b THEN a ELSE b

\* images of 1..MaxPixels palette colours, and the five pixel image
Images ==
  (UNION { [1..n -> Palette] : n \in 1..MaxPixels }) \cup { EmptyClusterImage }

\* pixels = np.array(image).reshape(-1, 3).astype(np.float64)
PixelArray(image) == [j \in 1..Len(image) |-> AsFloat(image[j])]

\* state on entry to kmeans, before kmeans_plusplus_init runs
Start(image, k, maxit) ==
  /\ pixels = PixelArray(image)
  /\ n_clusters = k
  /\ max_iterations = maxit
  /\ pc = "seed_first"
  /\ first_idx = -1
  /\ next_idx = -1
  /\ centers = << >>
  /\ new_centers = << >>
  /\ labels = << >>
  /\ it = 0
  /\ stopped = "no"
  /\ exc = ""
  /\ results = << >>

\* any bounded image, 1 <= k <= number of pixels, any iteration cap
Init ==
  \E image \in Images :
    \E k \in 1..Min(MaxK, Len(image)) :
      \E maxit \in (0..MaxIter) \cup { DefaultMaxIterations } :
        Start(image, k, maxit)

\* extract_colors_from_image on the two colour image with num_colors = 2
InitTwoColor == Start(TwoColorImage, 2, DefaultMaxIterations)

Next ==
  \/ ChooseFirst
  \/ ChooseNext
  \/ SeedReturn
  \/ ForNext
  \/ Assign
  \/ Update
  \/ CheckConvergence
  \/ Return
  \/ Aggregate

Spec == Init /\ [][Next]_vars

\* the program is sequential: an enabled step is eventually taken
FairSpec == Init /\ [][Next]_vars /\ WF_vars(Next)

SpecTwoColor == InitTwoColor /\ [][Next]_vars

\* ---------------------------------------------------------- properties
\* squared distance from pixel j to the center of cluster id c
DistTo(j, c) == SqDist(pixels[j], centers[c + 1])

ClusterIds == 0..(n_clusters - 1)

\* the pixels carrying label c
Members(c) == { j \in 1..n_samples : labels[j] = c }

\* kmeans has returned to its caller
Returned == pc \in { "aggregate", "done" }

\* C1: once an assignment phase has run, and in particular after kmeans
\* has returned, the label sequence has one entry per pixel and every
\* entry is a cluster id in [0, k).
C1_Partition ==
  (pc \in { "update", "check", "aggregate", "done" } \/ labels # << >>) =>
    /\ DOMAIN labels = 1..n_samples
    /\ \A j \in 1..n_samples : labels[j] \in ClusterIds

\* kmeans returned at the iteration cap with two clusters in use
C1_Witness ==
  /\ Returned
  /\ stopped = "cap"
  /\ n_clusters >= 2
  /\ \E i, j \in 1..n_samples : labels[i] # labels[j]

\* C9: after an assignment phase every pixel carries the id of a center at
\* minimum squared distance, and every center of a lower id is strictly
\* farther away.
C9_NearestLowestIndex ==
  pc = "update" =>
    \A j \in 1..n_samples : \A c \in ClusterIds :
      /\ RLeq(DistTo(j, labels[j]), DistTo(j, c))
      /\ c < labels[j] => RLess(DistTo(j, labels[j]), DistTo(j, c))

\* an assignment phase has resolved a tie between two nearest centers
C9_Witness ==
  /\ pc = "update"
  /\ \E j \in 1..n_samples : \E c \in ClusterIds :
       c > labels[j] /\ DistTo(j, c) = DistTo(j, labels[j])

RECURSIVE SumOfComponent(_, _)
\* sum of component i over the pixels with index in S
SumOfComponent(S, i) ==
  IF S = {} THEN 0
  ELSE LET j == CHOOSE x \in S : TRUE
       IN pixels[j][i].n + SumOfComponent(S \ {j}, i)

Defined(cs) ==
  \A c \in 1..Len(cs) : \A i \in 1..3 : cs[c][i].d > 0

\* C5: after an update phase, a cluster without pixels has the center it
\* had before, a cluster with pixels has the componentwise mean of exactly
\* the pixels carrying its label, and every component of every center is a
\* defined number.
C5_UpdateFrame ==
  /\ Defined(centers)
  /\ Defined(new_centers)
  /\ pc = "check" =>
       \A c \in ClusterIds :
         IF Members(c) = {}
           THEN new_centers[c + 1] = centers[c + 1]
           ELSE \A i \in 1..3 :
                  new_centers[c + 1][i].n * Cardinality(Members(c))
                    = SumOfComponent(Members(c), i) * new_centers[c + 1][i].d

\* an update phase has met a cluster without pixels and one with several
C5_Witness ==
  /\ pc = "check"
  /\ \E c \in ClusterIds : Members(c) = {}
  /\ \E c \in ClusterIds : Cardinality(Members(c)) >= 2

\* sum over the pixels of the squared distance to the center of their label
Inertia(cs, ls) ==
  RSum([j \in 1..n_samples |-> SqDist(pixels[j], cs[ls[j] + 1])],
       1, n_samples)

C7_InertiaStep ==
  /\ (labels # << >> /\ labels' # << >>) =>
        RLeq(Inertia(centers', labels'), Inertia(centers, labels))
  /\ (pc = "update" /\ pc' = "check") =>
        RLeq(Inertia(new_centers', labels), Inertia(centers, labels))

\* C7: the inertia of the current centers and labels never increases: not
\* when an assignment phase relabels, not when an update phase computes the
\* new centers, not when they replace the old ones.
C7_InertiaNonIncreasing == [][C7_InertiaStep]_vars

\* in a second or later iteration an update phase has left the center of
\* a cluster without pixels in place and lowered the inertia
C7_Witness ==
  /\ pc = "check"
  /\ it >= 2
  /\ \E c \in ClusterIds : Members(c) = {}
  /\ RLess(Inertia(new_centers, labels), Inertia(centers, labels))

\* one step of the loop control: break exactly when allclose holds, and no
\* loop position after the loop has been left
C2_BreakStep ==
  /\ (pc = "check" /\ AllClose(centers, new_centers)) =>
        (pc' = "return" /\ stopped' = "break")
  /\ (pc = "check" /\ ~AllClose(centers, new_centers)) => pc' = "for"
  /\ stopped # "no" => pc' \notin { "for", "assign", "update", "check" }

\* C2: no more than max_iterations iterations are entered, the loop is left
\* at the first check that finds the centers within tolerance and is not
\* entered again, every run ends, and a run that has entered the loop body
\* ends with a result.
C2_BoundedTermination ==
  /\ [](it <= max_iterations)
  /\ [][C2_BreakStep]_vars
  /\ <>(pc \in { "done", "raised" })
  /\ (pc = "assign") ~> (pc = "done")

\* the loop was left at the cap although the last check did not converge
C2_Witness ==
  /\ pc = "return"
  /\ stopped = "cap"
  /\ it = max_iterations
  /\ it >= 1

\* the orders a sort can leave k entries in
Permutations(k) ==
  { f \in [1..k -> 1..k] : \A a, b \in 1..k : f[a] = f[b] => a = b }

ExpectedEntry(c) ==
  [hex |-> HexColor(centers[c + 1]),
   percentage |-> Rat(100 * Cardinality(Members(c)), n_samples)]

RECURSIVE TotalCount(_)
TotalCount(c) ==
  IF c < 0 THEN 0 ELSE Cardinality(Members(c)) + TotalCount(c - 1)

\* C6: the result has one entry per cluster id; the entry of cluster id c
\* carries the hex code of its center and 100 * (number of pixels labelled
\* c) / (number of pixels), which is 0 for a cluster without pixels; the
\* counts add up to the number of pixels and the percentages to 100.
C6_Aggregation ==
  pc = "done" =>
    /\ Len(results) = n_clusters
    /\ \E f \in Permutations(n_clusters) :
         \A c \in ClusterIds : results[f[c + 1]] = ExpectedEntry(c)
    /\ \A c \in ClusterIds :
         Members(c) = {} => ExpectedEntry(c).percentage = RInt(0)
    /\ TotalCount(n_clusters - 1) = n_samples
    /\ RSum([i \in 1..Len(results) |-> results[i].percentage],
            1, Len(results)) = RInt(100)

\* aggregation ran on three clusters of which one has no pixels and the
\* other two differ in size
C6_Witness ==
  /\ pc = "done"
  /\ n_clusters = 3
  /\ \E c \in ClusterIds : Members(c) = {}
  /\ \E c, e \in ClusterIds :
       0 < Cardinality(Members(c)) /\ Cardinality(Members(c)) < Cardinality(Members(e))

LabelsNearest ==
  \A j \in 1..n_samples : labels[j] = ArgMin(DistanceColumn(j))

\* C10 as stated: on every exit each returned label is the id of the
\* nearest returned center (lowest id on ties) and each returned center of
\* a cluster with pixels is the mean of the pixels carrying its label.
C10_Consistent ==
  Returned =>
    /\ LabelsNearest
    /\ \A c \in ClusterIds :
         Members(c) # {} => centers[c + 1] = Mean(Members(c))

\* C10 amended: on the convergence exit the labels are nearest-center ids
\* of the returned centers, and those centers are within the allclose
\* tolerance of the means of their pixels; on the exit at the cap the
\* returned centers of clusters with pixels are exactly those means.
C10_PerExit ==
  Returned =>
    /\ stopped \in { "break", "cap" }
    /\ stopped = "break" =>
         /\ LabelsNearest
         /\ \A c \in ClusterIds : \A i \in 1..3 :
              Members(c) # {} =>
                IsClose(centers[c + 1][i], Mean(Members(c))[i])
    /\ stopped = "cap" =>
         \A c \in ClusterIds :
           Members(c) # {} => centers[c + 1] = Mean(Members(c))

\* kmeans returned at the cap with a label that is not the id of the
\* nearest returned center
C10_Witness ==
  /\ Returned
  /\ stopped = "cap"
  /\ ~LabelsNearest

C3_FallbackStep ==
  (pc = "seed_loop" /\ Len(centers) < n_clusters /\ DistanceSum.n = 0) =>
    /\ pc' = "seed_loop"
    /\ Len(centers') = Len(centers) + 1
    /\ \E j \in 1..n_samples : centers'[Len(centers')] = pixels[j]

\* C3 as stated: a seeding pass that finds the weights summing to zero
\* still appends a pixel as the next center and seeding goes on.
C3_UniformFallback == [][C3_FallbackStep]_vars

AllIdentical == \A j \in 1..n_samples : pixels[j] = pixels[1]

\* C4 as stated: on an image of identical pixels with k = 3 the run ends
\* with a result, the three centers equal to the pixel and the
\* percentages 100, 0, 0.
C4_UniformImage ==
  (AllIdentical /\ n_clusters = 3 /\ pc \in { "done", "raised" }) =>
    /\ pc = "done"
    /\ \A c \in 1..3 : centers[c] = pixels[1]
    /\ \E f \in Permutations(3) :
         /\ results[f[1]].percentage = RInt(100)
         /\ results[f[2]].percentage = RInt(0)
         /\ results[f[3]].percentage = RInt(0)

\* C8: on the two colour image every run ends with a result, and the
\* result is #ff0000 at 100/150*100 followed by #0000ff at 50/150*100.
C8_TwoColor ==
  /\ pc # "raised"
  /\ pc = "done" =>
       results =
         << [hex |-> << "#", "f", "f", "0", "0", "0", "0" >>,
             percentage |-> RMul(Rat(100, 150), RInt(100))],
            [hex |-> << "#", "0", "0", "0", "0", "f", "f" >>,
             percentage |-> RMul(Rat(50, 150), RInt(100))] >>

\* the run that seeded blue first has ended: cluster id 0 is the smaller
C8_Witness ==
  /\ pc = "done"
  /\ centers[1] = AsFloat(<< 0, 0, 255 >>)
  /\ Len(results) = 2

====
